---- MODULE Spec2Model ----
(***************************************************************************)
(* A model of pithos: the extension validator (file_extensions.rs), the    *)
(* framed-envelope storage models (model.rs) and the signed-URL handlers   *)
(* (main.rs, service.rs).                                                  *)
(***************************************************************************)
EXTENDS Integers, Sequences, FiniteSets, TLC

(***************************************************************************)
(* Bounds of the model.                                                    *)
(***************************************************************************)
\* longest run of one repeated character inside a generated extension
MaxRun == 33
\* longest arbitrary head placed before the run
MaxHead == 2
\* longest arbitrary tail placed after the run
MaxTail == 2
\* how many identifiers Uuid::new_v4 can hand out
MaxUuid == 2
\* how many requests are in flight at once
MaxTasks == 2
\* how many chunks a request body yields at most
MaxChunks == 2
\* the longest chunk of a request body, in bytes
MaxChunkLen == 1
\* the last instant of the clock
MaxTime == 2
\* the number of requests the server receives
MaxRequests == 4
\* the longest content of an object found in storage at startup, in bytes
MaxContent == 3

(***************************************************************************)
(* Characters are Unicode code points; strings are sequences of them.      *)
(***************************************************************************)
\* '.'
Dot == 46

\* char::len_utf8: the number of bytes of a code point's UTF-8 encoding
len_utf8(c) ==
    IF c < 128 THEN 1 ELSE IF c < 2048 THEN 2 ELSE IF c < 65536 THEN 3 ELSE 4

\* char::is_alphanumeric (Alphabetic or Numeric), for code points below 256
is_alphanumeric(c) ==
    \/ c \in 48..57 \/ c \in 65..90 \/ c \in 97..122
    \/ c \in {170, 181, 186} \/ c \in 192..214 \/ c \in 216..246 \/ c \in 248..255
    \/ c \in {178, 179, 185, 188, 189, 190}

\* str::len: the length of a string in bytes
RECURSIVE str_len(_)
str_len(s) == IF s = <<>> THEN 0 ELSE len_utf8(Head(s)) + str_len(Tail(s))

\* the limit of FileExt::from_str
MAX_EXTENSION_LENGTH == 32

\* the characters extensions are generated from: '.', 'a', '-', e-acute
ExtAlphabet == {Dot, 97, 45, 233}

\* all strings over S of length at most n
SeqsUpTo(S, n) == UNION {[1..k -> S] : k \in 0..n}

\* c repeated k times
Repeat(c, k) == [i \in 1..k |-> c]

VARIABLES
    value,      \* from_str: the string being validated
    ext_pc,     \* from_str: "len" | "scan" | "end" | "done"
    state,      \* from_str: the scanner's State
    idx,        \* from_str: how many chars the iterator has yielded
    ext_result, \* from_str: the returned Result
    design,     \* "proxy" (model.rs, Model) | "issuance" (main.rs, Service)
    backend,    \* the backend chosen at startup: "local" | "gcs"
    served,     \* how many requests the server has received
    files,      \* the local storage directory: identifier -> file
    bucket,     \* the cloud bucket: identifier -> object
    minted,     \* how many identifiers Uuid::new_v4 has returned
    now,        \* the clock
    tasks,      \* the requests in flight, each with its position
    response,   \* the last answer of upload_handler / download_handler
    stored      \* history: what each successful upload was given to store

ext_vars == <<value, ext_pc, state, idx, ext_result>>

sys_vars == <<design, backend, served, files, bucket, minted, now, tasks, response, stored>>

vars == <<ext_vars, sys_vars>>

\* Result<FileExt, ExtensionError>
ExtOk(s) == [ok |-> TRUE, err |-> "none", arg |-> 0, ext |-> s]
ExtErr(e, a) == [ok |-> FALSE, err |-> e, arg |-> a, ext |-> <<>>]
NoResult == [ok |-> FALSE, err |-> "pending", arg |-> 0, ext |-> <<>>]

\* the strings from_str is applied to: head, a run of one character, tail
ExtInputs ==
    {h \o Repeat(c, k) \o t :
        h \in SeqsUpTo(ExtAlphabet, MaxHead), c \in {97, 233},
        k \in 0..MaxRun, t \in SeqsUpTo(ExtAlphabet, MaxTail)}

ExtStart(v) ==
    /\ value = v
    /\ ext_pc = "len"
    /\ state = "WantDot"
    /\ idx = 0
    /\ ext_result = NoResult

\* the length test that opens from_str
TooLongCheck(s) == str_len(s) > MAX_EXTENSION_LENGTH

\* from_str, lines 39-41: the length check
from_str_len ==
    /\ ext_pc = "len"
    /\ IF TooLongCheck(value)
       THEN /\ ext_result' = ExtErr("TooLong", str_len(value))
            /\ ext_pc' = "done"
       ELSE /\ ext_pc' = "scan"
            /\ UNCHANGED ext_result
    /\ UNCHANGED <<value, state, idx>>
    /\ UNCHANGED sys_vars

\* the loop body without the assignment of line 71: a '.' after letters
\* leaves the State at WantLettersOrDot
ScanCharDotStays(st, chr) ==
    CASE st = "WantDot" ->
            IF chr # Dot THEN [next |-> st, res |-> ExtErr("DoesNotStartWithDot", chr)]
            ELSE [next |-> "WantLetters", res |-> NoResult]
      [] st = "WantLetters" ->
            IF chr = Dot THEN [next |-> st, res |-> ExtErr("ConsecutiveDots", 0)]
            ELSE IF ~is_alphanumeric(chr)
                 THEN [next |-> st, res |-> ExtErr("NotAlphanumeric", chr)]
                 ELSE [next |-> "WantLettersOrDot", res |-> NoResult]
      [] st = "WantLettersOrDot" ->
            IF chr = Dot THEN [next |-> st, res |-> NoResult]
            ELSE IF ~is_alphanumeric(chr)
                 THEN [next |-> st, res |-> ExtErr("NotAlphanumeric", chr)]
                 ELSE [next |-> st, res |-> NoResult]

\* one iteration of the loop over chars: the new State, or the error returned
ScanChar(st, chr) ==
    CASE st = "WantDot" ->
            IF chr # Dot THEN [next |-> st, res |-> ExtErr("DoesNotStartWithDot", chr)]
            ELSE [next |-> "WantLetters", res |-> NoResult]
      [] st = "WantLetters" ->
            IF chr = Dot THEN [next |-> st, res |-> ExtErr("ConsecutiveDots", 0)]
            ELSE IF ~is_alphanumeric(chr)
                 THEN [next |-> st, res |-> ExtErr("NotAlphanumeric", chr)]
                 ELSE [next |-> "WantLettersOrDot", res |-> NoResult]
      [] st = "WantLettersOrDot" ->
            IF chr = Dot THEN [next |-> "WantLetters", res |-> NoResult]
            ELSE IF ~is_alphanumeric(chr)
                 THEN [next |-> st, res |-> ExtErr("NotAlphanumeric", chr)]
                 ELSE [next |-> st, res |-> NoResult]

\* from_str, lines 50-81: the loop body for the next char
from_str_scan ==
    /\ ext_pc = "scan"
    /\ idx < Len(value)
    /\ LET r == ScanChar(state, value[idx + 1]) IN
        /\ idx' = idx + 1
        /\ state' = r.next
        /\ IF r.res = NoResult
           THEN UNCHANGED <<ext_pc, ext_result>>
           ELSE ext_pc' = "done" /\ ext_result' = r.res
    /\ UNCHANGED value
    /\ UNCHANGED sys_vars

\* the value returned once the chars are exhausted
EndOfInput(st, s) ==
    CASE st = "WantDot" -> ExtErr("EmptyExtension", 0)
      [] st = "WantLetters" -> ExtErr("EndsWithDot", 0)
      [] st = "WantLettersOrDot" -> ExtOk(s)

\* from_str, lines 83-87: the final match on the state
from_str_end ==
    /\ ext_pc = "scan"
    /\ idx = Len(value)
    /\ ext_result' = EndOfInput(state, value)
    /\ ext_pc' = "done"
    /\ UNCHANGED <<value, state, idx>>
    /\ UNCHANGED sys_vars

ExtNext == from_str_len \/ from_str_scan \/ from_str_end

(***************************************************************************)
(* Bytes, the framed envelope and the storage state.                       *)
(***************************************************************************)
\* the identifiers Uuid::new_v4 draws from
Uuid == 1..MaxUuid

\* the k bytes that follow the first sent bytes of the body of the request in
\* slot t: every byte names its request and its position in the body, so a
\* lost, repeated, reordered or foreign byte shows
BodyChunk(t, sent, k) == [i \in 1..k |-> 16 * t + sent + i]

\* the chunks the body of the request in slot t can yield after sent bytes
Chunks(t, sent) == {BodyChunk(t, sent, k) : k \in 1..MaxChunkLen}

\* the file names uploads are given (valid UTF-8): "" and e-acute
FileNames == {<<>>, <<195, 169>>}

\* the name under which the client of slot t uploads its file
FileName(t) == IF t % 2 = 1 THEN <<>> ELSE <<195, 169>>

\* byte strings that are not UTF-8: a byte no encoding uses, a lead byte
\* without its continuation, a lead byte followed by an ASCII character
NotUtf8 == {<<255>>, <<195>>, <<195, 40>>}

\* a number at or above 2^24, larger than every length of the model
Huge == 16777216

\* u64::to_le_bytes: the least significant byte first, n < 2^31
to_le_bytes(n) ==
    [i \in 1..8 |-> IF i > 4 THEN 0 ELSE (n \div (256 ^ (i - 1))) % 256]

\* u64::to_be_bytes (also usize::to_be_bytes on a 64-bit target), n < 2^31
to_be_bytes(n) ==
    [i \in 1..8 |-> IF i <= 4 THEN 0 ELSE (n \div (256 ^ (8 - i))) % 256]

\* u64::from_be_bytes; every value of 2^24 or more is reported as Huge
from_be_bytes(b) ==
    IF \E i \in 1..5 : b[i] # 0 THEN Huge
    ELSE b[6] * 65536 + b[7] * 256 + b[8]

\* a UTF-8 continuation byte
IsCont(x) == x \in 128..191

\* from_utf8 replaced by a conversion that does not check (from_utf8_lossy):
\* it succeeds on any bytes
from_utf8_lossy_ok(b) == TRUE

\* String::from_utf8 succeeds: the bytes are well-formed UTF-8
RECURSIVE from_utf8_ok(_)
from_utf8_ok(b) ==
    IF b = <<>> THEN TRUE
    ELSE LET c == b[1]
             n == Len(b)
         IN IF c < 128 THEN from_utf8_ok(Tail(b))
            ELSE IF c \in 194..223
                 THEN n >= 2 /\ IsCont(b[2]) /\ from_utf8_ok(SubSeq(b, 3, n))
            ELSE IF c \in 224..239
                 THEN /\ n >= 3 /\ IsCont(b[2]) /\ IsCont(b[3])
                      /\ (c = 224 => b[2] >= 160) /\ (c = 237 => b[2] <= 159)
                      /\ from_utf8_ok(SubSeq(b, 4, n))
            ELSE IF c \in 240..244
                 THEN /\ n >= 4 /\ IsCont(b[2]) /\ IsCont(b[3]) /\ IsCont(b[4])
                      /\ (c = 240 => b[2] >= 144) /\ (c = 244 => b[2] <= 143)
                      /\ from_utf8_ok(SubSeq(b, 5, n))
            ELSE FALSE

\* the variants of PilviError (error.rs) and of PithosError (errors.rs)
PilviErrors ==
    {"FileSystemError", "NoSuchFileError", "FileCorruptedError", "ContentReadError"}
PithosErrors ==
    {"Access", "TooLarge", "Blocked", "InvalidRange", "ServerError", "NoSuchFile",
     "InvalidQuery"}

\* PilviError::status_code with every variant answered 500
PilviError_status_code_500(e) ==
    CASE e \in PilviErrors -> 500

\* PilviError::status_code
PilviError_status_code(e) ==
    CASE e = "FileSystemError" -> 500
      [] e = "FileCorruptedError" -> 500
      [] e = "ContentReadError" -> 400
      [] e = "NoSuchFileError" -> 404

\* PithosError::status_code
PithosError_status_code(e) ==
    CASE e = "TooLarge" -> 413
      [] e = "Blocked" -> 403
      [] e \in {"Access", "ServerError"} -> 500
      [] e = "NoSuchFile" -> 404
      [] e = "InvalidRange" -> 416
      [] e = "InvalidQuery" -> 400

\* IntoResponse for PilviError and for PithosError: the status an error is
\* answered with
into_response(e) ==
    IF e \in PilviErrors THEN PilviError_status_code(e)
    ELSE PithosError_status_code(e)

\* IntoResponse for PilviError, error.rs 129-133 and 58-62: the body is
\* self.to_string(), and Display::fmt calls error! for every variant
PilviError_logs(e) == e \in PilviErrors

\* IntoResponse for PithosError, errors.rs 97-101: error! if the status is a
\* server error
PithosError_logs(e) == PithosError_status_code(e) \in 500..599

\* producing the response of an error writes a log entry
Logs(e) ==
    IF e \in PilviErrors THEN PilviError_logs(e) ELSE PithosError_logs(e)

\* a path of the storage directory (or an object name of the bucket)
NoFile == [exists |-> FALSE, data |-> <<>>]
File(d) == [exists |-> TRUE, data |-> d]

\* a write of w at offset off into a file holding d (a gap reads as zeros)
WriteAt(d, off, w) ==
    LET end == off + Len(w)
        newlen == IF Len(d) > end THEN Len(d) ELSE end
    IN [i \in 1..newlen |->
            IF i > off /\ i <= end THEN w[i - off]
            ELSE IF i <= Len(d) THEN d[i] ELSE 0]

\* what a storage write of w can do: all of it, or fail having written
\* nothing, or fail having written all but the last byte
WriteOutcomes(w) ==
    {[ok |-> TRUE, written |-> w]}
        \cup {[ok |-> FALSE, written |-> SubSeq(w, 1, k)] :
                    k \in {0, Len(w) - 1} \cap (0..(Len(w) - 1))}

\* nothing acknowledged for an identifier
NotStored == [done |-> FALSE, name |-> <<>>, content |-> <<>>, all |-> {}]

\* a signed URL: the endpoint, the identifier in the path, the query
\* parameters, the expiry and the signature
NoUrl ==
    [path |-> "none", uuid |-> 0, type_hint |-> "none", ext_hint |-> "none",
     expires |-> -1, signature |-> [tag |-> "none", msg |-> <<>>]]

\* the answer slot when neither issuing handler has answered
NoResponse ==
    [handler |-> "none", status |-> "none", uuid |-> 0, given |-> 0, max |-> 0,
     type_hint |-> "none", ext_hint |-> "none", url |-> NoUrl]

\* the headers of a download response that hints can set, none of them set
NoHeaders == [content_type |-> "none", disposition |-> "none", filename |-> <<>>]

\* a request slot with no request in it
IdleTask ==
    [kind |-> "idle", pc |-> "idle", uuid |-> 0, name |-> <<>>, data |-> <<>>,
     n |-> 0, off |-> 0, len |-> -1, after |-> FALSE, buf |-> <<>>, rest |-> <<>>,
     wfail |-> FALSE, url |-> NoUrl, headers |-> NoHeaders, result |-> "none"]

TaskIds == 1..MaxTasks

\* Uuid::new_v4: an identifier no earlier call returned
new_v4 == minted + 1

\* the server receives one more request
Serve == served < MaxRequests /\ served' = served + 1

\* a request is given the first free slot
Free(t) ==
    /\ tasks[t].kind = "idle"
    /\ \A u \in TaskIds : u < t => tasks[u].kind # "idle"


(***************************************************************************)
(* Proxy design, local backend: LocalFilesystemModel (model.rs).           *)
(***************************************************************************)
\* the file a task's handle writes to, after writing w at the task's offset
Written(t, w) ==
    [files EXCEPT ![tasks[t].uuid] = File(WriteAt(@.data, tasks[t].off, w))]

\* a task that ended with an error
Failed(t, e) == [tasks EXCEPT ![t].pc = "done", ![t].result = e]

\* write_file, lines 127-132: try_create_storage, new_v4, File::create
write_file_create(t) ==
    /\ Serve
    /\ design = "proxy" /\ backend = "local"
    /\ Free(t)
    /\ \E name \in {FileName(t)}, dir_ok \in BOOLEAN, create_ok \in BOOLEAN :
        LET req == [IdleTask EXCEPT !.kind = "write_file", !.name = name] IN
        IF ~dir_ok
        THEN /\ tasks' = [tasks EXCEPT ![t] = [req EXCEPT !.pc = "done",
                                                    !.result = "FileSystemError"]]
             /\ UNCHANGED <<files, minted>>
        ELSE /\ minted < MaxUuid
             /\ minted' = new_v4
             /\ IF create_ok
                THEN /\ files' = [files EXCEPT ![new_v4] = File(<<>>)]
                     /\ tasks' = [tasks EXCEPT ![t] = [req EXCEPT !.pc = "prefix",
                                                            !.uuid = new_v4]]
                ELSE /\ tasks' = [tasks EXCEPT ![t] = [req EXCEPT !.pc = "done",
                                        !.uuid = new_v4, !.result = "FileSystemError"]]
                     /\ UNCHANGED files
    /\ UNCHANGED <<design, backend, bucket, now, response, stored>>
    /\ UNCHANGED ext_vars

\* tokio's File::poll_write, as write_u64 and write_all drive it: it waits for
\* the handle's write in flight, returns that write's error if it failed, and
\* otherwise hands w to a blocking task and returns Ok without waiting for it;
\* write_all of no bytes returns at once
BufferedWrite(t, w, next) ==
    IF w = <<>>
    THEN tasks' = [tasks EXCEPT ![t].pc = next]
    ELSE /\ tasks[t].buf = <<>>
         /\ tasks' = IF tasks[t].wfail
                     THEN [Failed(t, "FileSystemError") EXCEPT ![t].wfail = FALSE]
                     ELSE [tasks EXCEPT ![t].pc = next, ![t].buf = w]

\* the handle of a write_file task has a write in flight
Inflight(t) ==
    /\ backend = "local"
    /\ tasks[t].kind = "write_file"
    /\ tasks[t].buf # <<>>

\* the blocking task of a handle carries out the write in flight; nothing
\* waits for it once write_file has returned or the handle is dropped
blocking_write(t) ==
    /\ design = "proxy"
    /\ Inflight(t)
    /\ \E o \in WriteOutcomes(tasks[t].buf) :
        /\ files' = Written(t, o.written)
        /\ tasks' = [tasks EXCEPT ![t].buf = <<>>, ![t].off = @ + Len(o.written),
                                  ![t].wfail = ~o.ok]
    /\ UNCHANGED <<design, backend, served, bucket, minted, now, response, stored>>
    /\ UNCHANGED ext_vars

\* write_file, line 134: file.write_u64(file_name.len())
write_file_prefix(t) ==
    /\ backend = "local"
    /\ tasks[t].kind = "write_file" /\ tasks[t].pc = "prefix"
    /\ BufferedWrite(t, to_be_bytes(Len(tasks[t].name)), "name")
    /\ UNCHANGED <<design, backend, served, files, bucket, minted, now, response, stored>>
    /\ UNCHANGED ext_vars

\* write_file, line 135: file.write_all(file_name.as_bytes())
write_file_name(t) ==
    /\ backend = "local"
    /\ tasks[t].kind = "write_file" /\ tasks[t].pc = "name"
    /\ BufferedWrite(t, tasks[t].name, "content")
    /\ UNCHANGED <<design, backend, served, files, bucket, minted, now, response, stored>>
    /\ UNCHANGED ext_vars

\* write_file, lines 137-139: the stream yields a chunk, which is written
write_file_chunk(t) ==
    /\ backend = "local"
    /\ tasks[t].kind = "write_file" /\ tasks[t].pc = "content"
    /\ tasks[t].n < MaxChunks
    /\ tasks[t].buf = <<>>
    /\ \E chunk \in Chunks(t, Len(tasks[t].data)) :
        tasks' = IF tasks[t].wfail
                 THEN [tasks EXCEPT ![t].pc = "done", ![t].n = @ + 1,
                                    ![t].data = @ \o chunk, ![t].wfail = FALSE,
                                    ![t].result = "FileSystemError"]
                 ELSE [tasks EXCEPT ![t].n = @ + 1, ![t].data = @ \o chunk,
                                    ![t].buf = chunk]
    /\ UNCHANGED <<design, backend, served, files, bucket, minted, now, response, stored>>
    /\ UNCHANGED ext_vars

\* write_file, line 138: the stream yields an error (chunk?)
write_file_chunk_err(t) ==
    /\ backend = "local"
    /\ tasks[t].kind = "write_file" /\ tasks[t].pc = "content"
    /\ tasks' = Failed(t, "ContentReadError")
    /\ UNCHANGED <<design, backend, served, files, bucket, minted, now, response, stored>>
    /\ UNCHANGED ext_vars

\* the record of a successful upload: what the caller gave it to store, and
\* with it what every earlier successful upload of the identifier was given
Acknowledge(t) ==
    [stored EXCEPT ![tasks[t].uuid] =
        [done |-> TRUE, name |-> tasks[t].name, content |-> tasks[t].data,
         all |-> @.all \cup {<<tasks[t].name, tasks[t].data>>}]]

\* write_file, lines 137 and 141: the stream has ended, Ok(id)
write_file_return(t) ==
    /\ backend = "local"
    /\ tasks[t].kind = "write_file" /\ tasks[t].pc = "content"
    /\ tasks' = [tasks EXCEPT ![t].pc = "done", ![t].result = "Ok"]
    /\ stored' = Acknowledge(t)
    /\ UNCHANGED <<design, backend, served, files, bucket, minted, now, response>>
    /\ UNCHANGED ext_vars

\* read_file opening its file with File::create instead of File::open: the
\* file is truncated by the read
read_file_create(t) ==
    /\ Serve
    /\ design = "proxy" /\ backend = "local"
    /\ Free(t)
    /\ \E id \in Uuid :
        /\ files' = [files EXCEPT ![id] = File(<<>>)]
        /\ tasks' = [tasks EXCEPT ![t] =
                        [IdleTask EXCEPT !.kind = "read_file", !.pc = "header",
                                         !.uuid = id, !.after = stored[id].done]]
    /\ UNCHANGED <<design, backend, bucket, minted, now, response, stored>>
    /\ UNCHANGED ext_vars

\* read_file, lines 145-147: File::open
read_file_open(t) ==
    /\ Serve
    /\ design = "proxy" /\ backend = "local"
    /\ Free(t)
    /\ \E id \in Uuid :
        LET req == [IdleTask EXCEPT !.kind = "read_file", !.uuid = id,
                                    !.after = stored[id].done] IN
        tasks' = [tasks EXCEPT ![t] =
                    IF files[id].exists THEN [req EXCEPT !.pc = "header"]
                    ELSE [req EXCEPT !.pc = "done", !.result = "NoSuchFileError"]]
    /\ UNCHANGED <<design, backend, files, bucket, minted, now, response, stored>>
    /\ UNCHANGED ext_vars

\* the header of an envelope d as read_u64 / read_exact / from_utf8 decode it
DecodeHeader(d) ==
    IF Len(d) < 8 THEN [result |-> "FileSystemError", name |-> <<>>, length |-> 0]
    ELSE LET length == from_be_bytes(SubSeq(d, 1, 8)) IN
         IF Len(d) < 8 + length
         THEN [result |-> "FileSystemError", name |-> <<>>, length |-> length]
         ELSE LET name == SubSeq(d, 9, 8 + length) IN
              IF from_utf8_ok(name)
              THEN [result |-> "Ok", name |-> name, length |-> length]
              ELSE [result |-> "FileCorruptedError", name |-> <<>>, length |-> length]

\* read_file, lines 149-155: the header is decoded and the length computed
read_file_header(t) ==
    /\ backend = "local"
    /\ tasks[t].kind = "read_file" /\ tasks[t].pc = "header"
    /\ LET d == files[tasks[t].uuid].data
           h == DecodeHeader(d)
       IN tasks' = IF h.result = "Ok"
                   THEN [tasks EXCEPT ![t].pc = "body", ![t].result = "Ok",
                                      ![t].name = h.name, ![t].off = 8 + h.length,
                                      ![t].len = Len(d) - 8 - h.length]
                   ELSE Failed(t, h.result)
    /\ UNCHANGED <<design, backend, served, files, bucket, minted, now, response, stored>>
    /\ UNCHANGED ext_vars

\* the returned Body is polled: ReaderStream reads what the file holds past off
read_file_body(t) ==
    /\ backend = "local"
    /\ tasks[t].kind = "read_file" /\ tasks[t].pc = "body"
    /\ LET d == files[tasks[t].uuid].data IN
        /\ tasks[t].off < Len(d)
        /\ tasks' = [tasks EXCEPT ![t].data = @ \o SubSeq(d, tasks[t].off + 1, Len(d)),
                                  ![t].off = Len(d)]
    /\ UNCHANGED <<design, backend, served, files, bucket, minted, now, response, stored>>
    /\ UNCHANGED ext_vars

\* the returned Body is polled at the end of the file: the stream ends
read_file_eof(t) ==
    /\ backend = "local"
    /\ tasks[t].kind = "read_file" /\ tasks[t].pc = "body"
    /\ tasks[t].off >= Len(files[tasks[t].uuid].data)
    /\ tasks' = [tasks EXCEPT ![t].pc = "done"]
    /\ UNCHANGED <<design, backend, served, files, bucket, minted, now, response, stored>>
    /\ UNCHANGED ext_vars

(***************************************************************************)
(* Proxy design, cloud backend: GoogleCloudStorageModel (model.rs).        *)
(***************************************************************************)
\* the Content-Length values a request can declare: none (-1) or a length
ContentLengths == {-1, MaxChunkLen}

\* write_file, lines 49-58: new_v4 and the stream's two leading items; the
\* length handed to create_streamed (line 62) is kept in len
gcs_write_file_start(t) ==
    /\ Serve
    /\ design = "proxy" /\ backend = "gcs"
    /\ Free(t)
    /\ minted < MaxUuid
    /\ \E name \in {FileName(t)}, content_length \in ContentLengths :
        tasks' = [tasks EXCEPT ![t] =
            [IdleTask EXCEPT !.kind = "write_file", !.pc = "content",
                             !.uuid = new_v4, !.name = name,
                             !.off = content_length,
                             !.buf = to_be_bytes(Len(name)) \o name,
                             !.len = IF content_length = -1 THEN -1
                                     ELSE content_length + Len(name) + 8]]
    /\ minted' = new_v4
    /\ UNCHANGED <<design, backend, files, bucket, now, response, stored>>
    /\ UNCHANGED ext_vars

\* write_file, lines 54-58: create_streamed pulls a chunk of the body
gcs_write_file_chunk(t) ==
    /\ backend = "gcs"
    /\ tasks[t].kind = "write_file" /\ tasks[t].pc = "content"
    /\ tasks[t].n < MaxChunks
    /\ \E chunk \in Chunks(t, Len(tasks[t].data)) :
        /\ tasks[t].off # -1 => Len(tasks[t].data) + Len(chunk) <= tasks[t].off
        /\ tasks' = [tasks EXCEPT ![t].n = @ + 1, ![t].data = @ \o chunk]
    /\ UNCHANGED <<design, backend, served, files, bucket, minted, now, response, stored>>
    /\ UNCHANGED ext_vars

\* write_file, lines 56 and 64: the body yields an error, the upload fails
gcs_write_file_chunk_err(t) ==
    /\ backend = "gcs"
    /\ tasks[t].kind = "write_file" /\ tasks[t].pc = "content"
    /\ tasks' = Failed(t, "FileSystemError")
    /\ UNCHANGED <<design, backend, served, files, bucket, minted, now, response, stored>>
    /\ UNCHANGED ext_vars

\* write_file, lines 60-66: the stream ends; the object is created, or the
\* remote call fails
gcs_write_file_end(t) ==
    /\ backend = "gcs"
    /\ tasks[t].kind = "write_file" /\ tasks[t].pc = "content"
    /\ tasks[t].off # -1 => Len(tasks[t].data) = tasks[t].off
    /\ \E ok \in BOOLEAN :
        IF ok
        THEN /\ bucket' = [bucket EXCEPT ![tasks[t].uuid] =
                                File(tasks[t].buf \o tasks[t].data)]
             /\ tasks' = [tasks EXCEPT ![t].pc = "done", ![t].result = "Ok"]
             /\ stored' = Acknowledge(t)
        ELSE /\ tasks' = Failed(t, "FileSystemError")
             /\ UNCHANGED <<bucket, stored>>
    /\ UNCHANGED <<design, backend, served, files, minted, now, response>>
    /\ UNCHANGED ext_vars

\* the capacity passed to chunks() at line 72
CHUNK_CAPACITY == 1024

\* the capacities the download is chunked with: the code's, and small ones
\* that put chunk boundaries inside the envelopes of the model (after every
\* byte, inside the prefix and the name, at the end of the prefix)
ChunkCapacities == {1, 3, 8, CHUNK_CAPACITY}

\* StreamExt::chunks(cap) over the bytes of d
RECURSIVE Chunked(_, _)
Chunked(d, cap) ==
    IF d = <<>> THEN <<>>
    ELSE IF Len(d) <= cap THEN <<d>>
    ELSE <<SubSeq(d, 1, cap)>> \o Chunked(SubSeq(d, cap + 1, Len(d)), cap)

\* AsyncReadExt::read_exact of n bytes on a StreamReader holding the rest of
\* its current chunk (buf) and the chunks not yet pulled (rest)
RECURSIVE ReadExact(_, _, _, _)
ReadExact(buf, rest, n, acc) ==
    IF n = 0 THEN [ok |-> TRUE, bytes |-> acc, buf |-> buf, rest |-> rest]
    ELSE IF buf # <<>>
         THEN LET k == IF n < Len(buf) THEN n ELSE Len(buf) IN
              ReadExact(SubSeq(buf, k + 1, Len(buf)), rest, n - k,
                        acc \o SubSeq(buf, 1, k))
    ELSE IF rest = <<>>
         THEN [ok |-> FALSE, bytes |-> acc, buf |-> buf, rest |-> rest]
    ELSE ReadExact(Head(rest), Tail(rest), n, acc)

\* read_file, lines 70-77: download_streamed, chunked
gcs_read_file_start(t) ==
    /\ Serve
    /\ design = "proxy" /\ backend = "gcs"
    /\ Free(t)
    /\ \E id \in Uuid, cap \in ChunkCapacities :
        LET req == [IdleTask EXCEPT !.kind = "read_file", !.uuid = id,
                                    !.after = stored[id].done] IN
        tasks' = [tasks EXCEPT ![t] =
                    IF bucket[id].exists
                    THEN [req EXCEPT !.pc = "header",
                                     !.rest = Chunked(bucket[id].data, cap)]
                    ELSE [req EXCEPT !.pc = "done", !.result = "FileSystemError"]]
    /\ UNCHANGED <<design, backend, files, bucket, minted, now, response, stored>>
    /\ UNCHANGED ext_vars

\* the upper bounds size_hint() may report for a stream with these chunks
\* left, of an object of total bytes: none (-1), the count of the items
\* left, or the object's size
SizeHints(rest, total) == {-1, Len(rest), total}

\* read_file, lines 88-89: size_hint().1.map(|s| s as u64 - length - 8); a
\* u64 subtraction below zero panics (overflow checks) or wraps (-2)
SizeHintLengths(hint, length) ==
    IF hint = -1 THEN {[panic |-> FALSE, len |-> -1]}
    ELSE IF hint >= length + 8 THEN {[panic |-> FALSE, len |-> hint - length - 8]}
    ELSE {[panic |-> TRUE, len |-> -1], [panic |-> FALSE, len |-> -2]}

\* StreamReader::into_inner: the stream alone, the chunk the reader still
\* holds is dropped
into_inner(r) == [buf |-> <<>>, rest |-> r.rest]

\* StreamReader::into_inner_with_chunk, lines 91-92: the stream and the rest
\* of the chunk the reader still holds, which is chained in front of it
into_inner_with_chunk(r) == [buf |-> r.buf, rest |-> r.rest]

\* read_file, lines 80-93: the header is decoded from the chunk stream and
\* the bytes read past it are put back in front of the content
gcs_read_file_header(t) ==
    /\ backend = "gcs"
    /\ tasks[t].kind = "read_file" /\ tasks[t].pc = "header"
    /\ LET r1 == ReadExact(<<>>, tasks[t].rest, 8, <<>>) IN
        IF ~r1.ok THEN tasks' = Failed(t, "FileSystemError")
        ELSE LET length == from_be_bytes(r1.bytes)
                 r2 == ReadExact(r1.buf, r1.rest, length, <<>>)
             IN IF ~r2.ok THEN tasks' = Failed(t, "FileSystemError")
                ELSE IF ~from_utf8_ok(r2.bytes)
                THEN tasks' = Failed(t, "FileCorruptedError")
                ELSE \E hint \in SizeHints(r2.rest, Len(bucket[tasks[t].uuid].data)) :
                     \E l \in SizeHintLengths(hint, length) :
                        tasks' = IF l.panic THEN Failed(t, "panic")
                                 ELSE [tasks EXCEPT ![t].pc = "body",
                                            ![t].result = "Ok",
                                            ![t].name = r2.bytes,
                                            ![t].len = l.len,
                                            ![t].buf = into_inner_with_chunk(r2).buf,
                                            ![t].rest = into_inner_with_chunk(r2).rest]
    /\ UNCHANGED <<design, backend, served, files, bucket, minted, now, response, stored>>
    /\ UNCHANGED ext_vars

\* the returned Body is polled: the buffered chunk first, then the stream
gcs_read_file_body(t) ==
    /\ backend = "gcs"
    /\ tasks[t].kind = "read_file" /\ tasks[t].pc = "body"
    /\ tasks[t].buf # <<>> \/ tasks[t].rest # <<>>
    /\ tasks' = IF tasks[t].buf # <<>>
                THEN [tasks EXCEPT ![t].data = @ \o tasks[t].buf, ![t].buf = <<>>]
                ELSE [tasks EXCEPT ![t].data = @ \o Head(tasks[t].rest),
                                   ![t].rest = Tail(@)]
    /\ UNCHANGED <<design, backend, served, files, bucket, minted, now, response, stored>>
    /\ UNCHANGED ext_vars

\* the returned Body is polled when nothing is left: the stream ends
gcs_read_file_eof(t) ==
    /\ backend = "gcs"
    /\ tasks[t].kind = "read_file" /\ tasks[t].pc = "body"
    /\ tasks[t].buf = <<>> /\ tasks[t].rest = <<>>
    /\ tasks' = [tasks EXCEPT ![t].pc = "done"]
    /\ UNCHANGED <<design, backend, served, files, bucket, minted, now, response, stored>>
    /\ UNCHANGED ext_vars

(***************************************************************************)
(* Issuance design: the handlers of main.rs over a Service (service.rs).   *)
(***************************************************************************)
\* Config::max_upload_size, in bytes
max_upload_size == 1

\* the sizes an X-File-Size header can declare
XFileSizes == 0..(max_upload_size + 1)

\* the validity window of an issued URL (1800 s), in ticks of the clock
Expiration == 1

\* the hints a download request can carry ("none": the parameter is absent)
TypeHints == {"none", "text/plain"}
ExtHints == {"none", ".txt"}

\* the keyed code axum_signed_urls computes over a path, its query
\* parameters and the expiry
Mac(path, uuid, type_hint, ext_hint, expires) ==
    [tag |-> "hmac", msg |-> <<path, uuid, type_hint, ext_hint, expires>>]

\* axum_signed_urls::build: the URL of path/uuid with its query, an expiry
\* and the code over them
build(path, uuid, type_hint, ext_hint) ==
    [path |-> path, uuid |-> uuid, type_hint |-> type_hint, ext_hint |-> ext_hint,
     expires |-> now + Expiration,
     signature |-> Mac(path, uuid, type_hint, ext_hint, now + Expiration)]

\* Client::signed_url: a URL of the cloud provider for one object, signed
\* with the provider's key
signed_url(method, uuid, headers) ==
    [path |-> method, uuid |-> uuid, type_hint |-> "none", ext_hint |-> "none",
     expires |-> now + Expiration,
     signature |-> [tag |-> "gcs", msg |-> <<method, uuid, headers, now + Expiration>>]]

\* the SignedUrl extractor: the code recomputed over the request matches the
\* one it carries, and the expiry has not passed
SignedUrl(req) ==
    /\ req.signature = Mac(req.path, req.uuid, req.type_hint, req.ext_hint, req.expires)
    /\ now <= req.expires

\* request_upload_url signing the path of the first identifier instead of
\* the one it has just minted
request_upload_url_stale(length) ==
    IF backend = "local" THEN build("/signed_upload", 1, "none", "none")
    ELSE signed_url("PUT", 1, length)

\* LocalStorage::request_upload_url / GoogleCloudStorage::request_upload_url:
\* the handle for a new identifier
request_upload_url(length) ==
    IF backend = "local" THEN build("/signed_upload", new_v4, "none", "none")
    ELSE signed_url("PUT", new_v4, length)

\* the size check with its boundary moved: the maximum itself is refused
TooLargeAtMax(file_size) == file_size >= max_upload_size

\* upload_handler, line 142: file_size.0 > config.max_upload_size()
TooLarge(file_size) == file_size > max_upload_size

\* upload_handler: the size check, then the service's request_upload_url
upload_handler ==
    /\ Serve
    /\ design = "issuance"
    /\ \E file_size \in XFileSizes, sign_ok \in BOOLEAN :
        IF TooLarge(file_size)
        THEN /\ response' = [NoResponse EXCEPT !.handler = "upload",
                                !.status = "TooLarge", !.given = file_size,
                                !.max = max_upload_size]
             /\ UNCHANGED minted
        ELSE /\ minted < MaxUuid
             /\ minted' = new_v4
             /\ response' =
                    IF sign_ok
                    THEN [NoResponse EXCEPT !.handler = "upload",
                                !.status = "CREATED", !.given = file_size,
                                !.uuid = new_v4, !.url = request_upload_url(file_size)]
                    ELSE [NoResponse EXCEPT !.handler = "upload",
                                !.status = "Access", !.given = file_size]
    /\ UNCHANGED <<design, backend, files, bucket, now, tasks, stored>>
    /\ UNCHANGED ext_vars

\* request_download_url with a window of its own on the cloud backend: twice
\* that of the upload URLs
request_download_url_long(type_hint, ext_hint, file_identifier) ==
    IF backend = "local"
    THEN build("/signed_download", file_identifier, type_hint, ext_hint)
    ELSE [signed_url("GET", file_identifier, -1) EXCEPT
                !.expires = now + 2 * Expiration]

\* LocalStorage::request_download_url / GoogleCloudStorage::request_download_url
request_download_url(type_hint, ext_hint, file_identifier) ==
    IF backend = "local"
    THEN build("/signed_download", file_identifier, type_hint, ext_hint)
    ELSE signed_url("GET", file_identifier, -1)

\* download_handler: the service's request_download_url for the identifier;
\* the answer slot keeps the hints the request gave
download_handler ==
    /\ Serve
    /\ design = "issuance"
    /\ \E uuid \in Uuid, type_hint \in TypeHints, ext_hint \in ExtHints,
          sign_ok \in BOOLEAN :
        response' =
            IF sign_ok
            THEN [NoResponse EXCEPT !.handler = "download", !.status = "OK",
                        !.uuid = uuid,
                        !.type_hint = type_hint, !.ext_hint = ext_hint,
                        !.url = request_download_url(type_hint, ext_hint, uuid)]
            ELSE [NoResponse EXCEPT !.handler = "download", !.status = "Access"]
    /\ UNCHANGED <<design, backend, files, bucket, minted, now, tasks, stored>>
    /\ UNCHANGED ext_vars

\* the requests a client can send to a signed endpoint: the URL of the last
\* handle as issued, or with one part of it changed, dropped or damaged;
\* a client whose handle is not for this endpoint has only that to send
Requests(endpoint) ==
    LET base == [response.url EXCEPT !.path = endpoint] IN
    {r \in {base}
        \cup {[base EXCEPT !.uuid = u] : u \in Uuid}
        \cup (IF response.url.path # endpoint THEN {} ELSE
                {[base EXCEPT !.expires = base.expires + 1]}
                \cup {[base EXCEPT !.signature = [tag |-> g, msg |-> <<>>]] :
                        g \in {"none", "malformed"}}
                \cup {[base EXCEPT !.type_hint = h] : h \in TypeHints})
     : r.uuid \in Uuid}

\* a request handed to a signed handler: past the extractor, or rejected
Extracted(kind, first, req) ==
    IF SignedUrl(req)
    THEN [IdleTask EXCEPT !.kind = kind, !.pc = first, !.uuid = req.uuid,
                          !.url = req]
    ELSE [IdleTask EXCEPT !.kind = kind, !.pc = "done", !.uuid = req.uuid,
                          !.url = req, !.result = "Rejected"]

\* signed_upload_handler without its SignedUrl extractor: every request is
\* handed to the handler
signed_upload_handler_unsigned(t) ==
    /\ Serve
    /\ design = "issuance"
    /\ Free(t)
    /\ \E req \in Requests("/signed_upload") :
        tasks' = [tasks EXCEPT ![t] =
                    [IdleTask EXCEPT !.kind = "signed_upload", !.pc = "create",
                                     !.uuid = req.uuid, !.url = req]]
    /\ UNCHANGED <<design, backend, files, bucket, minted, now, response, stored>>
    /\ UNCHANGED ext_vars

\* signed_upload_handler, lines 173-178: the extractors
signed_upload_handler(t) ==
    /\ Serve
    /\ design = "issuance"
    /\ Free(t)
    /\ \E req \in Requests("/signed_upload") :
        tasks' = [tasks EXCEPT ![t] = Extracted("signed_upload", "create", req)]
    /\ UNCHANGED <<design, backend, files, bucket, minted, now, response, stored>>
    /\ UNCHANGED ext_vars

\* signed_upload_handler, lines 184-191: create_dir_all and File::create
signed_upload_create(t) ==
    /\ tasks[t].kind = "signed_upload" /\ tasks[t].pc = "create"
    /\ \E dir_ok \in BOOLEAN, create_ok \in BOOLEAN :
        IF dir_ok /\ create_ok
        THEN /\ files' = [files EXCEPT ![tasks[t].uuid] = File(<<>>)]
             /\ tasks' = [tasks EXCEPT ![t].pc = "copy"]
        ELSE /\ tasks' = Failed(t, "ServerError")
             /\ UNCHANGED files
    /\ UNCHANGED <<design, backend, served, bucket, minted, now, response, stored>>
    /\ UNCHANGED ext_vars

\* signed_upload_handler, line 195: copy_buf moves a chunk of the body
signed_upload_copy(t) ==
    /\ tasks[t].kind = "signed_upload" /\ tasks[t].pc = "copy"
    /\ tasks[t].n < MaxChunks
    /\ \E chunk \in Chunks(t, Len(tasks[t].data)) : \E o \in WriteOutcomes(chunk) :
        /\ files' = Written(t, o.written)
        /\ tasks' = IF o.ok
                    THEN [tasks EXCEPT ![t].n = @ + 1, ![t].data = @ \o chunk,
                                       ![t].off = @ + Len(chunk)]
                    ELSE [tasks EXCEPT ![t].pc = "done", ![t].n = @ + 1,
                                       ![t].data = @ \o chunk,
                                       ![t].off = @ + Len(o.written),
                                       ![t].result = "ServerError"]
    /\ UNCHANGED <<design, backend, served, bucket, minted, now, response, stored>>
    /\ UNCHANGED ext_vars

\* signed_upload_handler, lines 193-195: the body yields an error
signed_upload_body_err(t) ==
    /\ tasks[t].kind = "signed_upload" /\ tasks[t].pc = "copy"
    /\ tasks' = Failed(t, "ServerError")
    /\ UNCHANGED <<design, backend, served, files, bucket, minted, now, response, stored>>
    /\ UNCHANGED ext_vars

\* signed_upload_handler, lines 195-197: the body has ended, 202 Accepted
signed_upload_end(t) ==
    /\ tasks[t].kind = "signed_upload" /\ tasks[t].pc = "copy"
    /\ tasks' = [tasks EXCEPT ![t].pc = "done", ![t].result = "ACCEPTED"]
    /\ stored' = Acknowledge(t)
    /\ UNCHANGED <<design, backend, served, files, bucket, minted, now, response>>
    /\ UNCHANGED ext_vars

\* signed_download_handler, lines 208-213: the extractors
signed_download_handler(t) ==
    /\ Serve
    /\ design = "issuance"
    /\ Free(t)
    /\ \E req \in Requests("/signed_download") :
        tasks' = [tasks EXCEPT ![t] = Extracted("signed_download", "open", req)]
    /\ UNCHANGED <<design, backend, files, bucket, minted, now, response, stored>>
    /\ UNCHANGED ext_vars

\* signed_download_handler, lines 231-242: Content-Type and an inline
\* disposition from the type hint, then an attachment disposition with the
\* file name {uuid}{ext} from the extension hint
Headers(uuid, options) ==
    LET typed == IF options.type_hint # "none"
                 THEN [NoHeaders EXCEPT !.content_type = options.type_hint,
                                        !.disposition = "inline"]
                 ELSE NoHeaders
    IN IF options.ext_hint # "none"
       THEN [typed EXCEPT !.disposition = "attachment",
                          !.filename = <<uuid, options.ext_hint>>]
       ELSE typed

\* signed_download_handler, lines 218-244: File::open, the size, the headers
signed_download_open(t) ==
    /\ tasks[t].kind = "signed_download" /\ tasks[t].pc = "open"
    /\ tasks' = IF files[tasks[t].uuid].exists
                THEN [tasks EXCEPT ![t].pc = "body", ![t].result = "OK",
                                   ![t].len = Len(files[tasks[t].uuid].data),
                                   ![t].headers = Headers(tasks[t].uuid, tasks[t].url)]
                ELSE Failed(t, "NoSuchFile")
    /\ UNCHANGED <<design, backend, served, files, bucket, minted, now, response, stored>>
    /\ UNCHANGED ext_vars

\* the returned body is polled: ReaderStream reads what the file holds past off
signed_download_body(t) ==
    /\ tasks[t].kind = "signed_download" /\ tasks[t].pc = "body"
    /\ LET d == files[tasks[t].uuid].data IN
        /\ tasks[t].off < Len(d)
        /\ tasks' = [tasks EXCEPT ![t].data = @ \o SubSeq(d, tasks[t].off + 1, Len(d)),
                                  ![t].off = Len(d)]
    /\ UNCHANGED <<design, backend, served, files, bucket, minted, now, response, stored>>
    /\ UNCHANGED ext_vars

\* the returned body is polled at the end of the file: the stream ends
signed_download_eof(t) ==
    /\ tasks[t].kind = "signed_download" /\ tasks[t].pc = "body"
    /\ tasks[t].off >= Len(files[tasks[t].uuid].data)
    /\ tasks' = [tasks EXCEPT ![t].pc = "done"]
    /\ UNCHANGED <<design, backend, served, files, bucket, minted, now, response, stored>>
    /\ UNCHANGED ext_vars

\* time passes
Tick ==
    /\ design = "issuance"
    /\ now < MaxTime
    /\ now' = now + 1
    /\ UNCHANGED <<design, backend, served, files, bucket, minted, tasks, response, stored>>
    /\ UNCHANGED ext_vars

\* the response has been sent and the request's task is gone
task_end(t) ==
    /\ tasks[t].pc = "done"
    /\ ~Inflight(t)
    /\ tasks' = [tasks EXCEPT ![t] = IdleTask]
    /\ UNCHANGED <<design, backend, served, files, bucket, minted, now, response, stored>>
    /\ UNCHANGED ext_vars

(***************************************************************************)
(* The extension grammar as the specification words it, independent of the *)
(* scanner: lengths are counted in characters.                             *)
(***************************************************************************)
\* one or more groups of a '.' followed by one or more alphanumerics
Grammar(s) ==
    /\ s # <<>>
    /\ s[1] = Dot
    /\ s[Len(s)] # Dot
    /\ \A i \in 1..Len(s) : s[i] = Dot \/ is_alphanumeric(s[i])
    /\ \A i \in 1..(Len(s) - 1) : ~(s[i] = Dot /\ s[i + 1] = Dot)

\* the violation at position i of s, if any
ViolationAt(s, i) ==
    IF i = 1 THEN (IF s[1] # Dot THEN ExtErr("DoesNotStartWithDot", s[1]) ELSE NoResult)
    ELSE IF s[i] = Dot
         THEN (IF s[i - 1] = Dot THEN ExtErr("ConsecutiveDots", 0) ELSE NoResult)
         ELSE IF ~is_alphanumeric(s[i]) THEN ExtErr("NotAlphanumeric", s[i])
              ELSE NoResult

\* the one violation a string commits: too long first, then the first
\* violating position, then the trailing dot; ExtOk when it commits none
Violation(s) ==
    IF Len(s) > MAX_EXTENSION_LENGTH THEN ExtErr("TooLong", Len(s))
    ELSE IF s = <<>> THEN ExtErr("EmptyExtension", 0)
    ELSE LET bad == {i \in 1..Len(s) : ViolationAt(s, i) # NoResult} IN
         IF bad # {}
         THEN ViolationAt(s, CHOOSE i \in bad : \A j \in bad : i <= j)
         ELSE IF s[Len(s)] = Dot THEN ExtErr("EndsWithDot", 0) ELSE ExtOk(s)

\* C8: from_str accepts a string if and only if it consists of one or more
\* groups of '.' plus alphanumerics and its length (in characters, as the
\* specification counts it) is at most 32.
C8_ExtensionGrammar ==
    ext_pc = "done" =>
        (ext_result.ok <=> (Grammar(value) /\ Len(value) <= MAX_EXTENSION_LENGTH))

\* C9: every grammar-conforming extension of exactly 32 characters is
\* accepted and every one of 33 or more characters is rejected as too long,
\* whatever the byte width of its characters.
C9_LengthInCharacters ==
    (ext_pc = "done" /\ Grammar(value)) =>
        /\ Len(value) = MAX_EXTENSION_LENGTH => ext_result.ok
        /\ Len(value) > MAX_EXTENSION_LENGTH => ext_result.err = "TooLong"

\* C10: every rejected extension reports the one violation it commits: the
\* first violating position's error, TooLong(length) taking precedence.
C10_SpecificViolation ==
    (ext_pc = "done" /\ ~ext_result.ok) => ext_result = Violation(value)

\* the transitions of the validator: the State a character leads to, or
\* "none" where no transition exists
Transition(st, c) ==
    IF st = "WantDot" /\ c = Dot THEN "WantLetters"
    ELSE IF st = "WantLetters" /\ c # Dot /\ is_alphanumeric(c) THEN "WantLettersOrDot"
    ELSE IF st = "WantLettersOrDot" /\ c # Dot /\ is_alphanumeric(c) THEN "WantLettersOrDot"
    ELSE IF st = "WantLettersOrDot" /\ c = Dot THEN "WantLetters"
    ELSE "none"

\* C24: scanning starts in WantDot; '.' in WantDot leads to WantLetters,
\* an alphanumeric in WantLetters to WantLettersOrDot, in WantLettersOrDot an
\* alphanumeric stays and '.' leads back to WantLetters; every other
\* character ends the scan with an error; and the scan accepts exactly when
\* the input ends in WantLettersOrDot.
C24_StateMachine ==
    /\ [](ext_pc = "len" => state = "WantDot")
    /\ [][(ext_pc = "scan" /\ idx' = idx + 1) =>
            LET to == Transition(state, value[idx + 1]) IN
            IF to = "none"
            THEN ext_pc' = "done" /\ ~ext_result'.ok /\ ext_result' # NoResult
            ELSE ext_pc' = "scan" /\ state' = to /\ ext_result' = NoResult]_vars
    /\ [][(ext_pc = "scan" /\ ext_pc' = "done" /\ idx' = idx) =>
            /\ idx = Len(value)
            /\ ext_result'.ok <=> state = "WantLettersOrDot"]_vars
    /\ [](ext_result.ok => (state = "WantLettersOrDot" /\ idx = Len(value)))

\* an extension of two groups has been accepted: the scan went back from
\* WantLettersOrDot to WantLetters on its second dot
C24_TwoGroupsAccepted ==
    /\ ext_pc = "done" /\ ext_result.ok
    /\ \E i \in 2..Len(value) : value[i] = Dot

\* what the scanner does decide: the same three statements with the length
\* counted in bytes, as str::len counts it
ByteViolation(s) ==
    IF str_len(s) > MAX_EXTENSION_LENGTH THEN ExtErr("TooLong", str_len(s))
    ELSE Violation(s)

ExtensionGrammarInBytes ==
    ext_pc = "done" =>
        /\ ext_result.ok <=> (Grammar(value) /\ str_len(value) <= MAX_EXTENSION_LENGTH)
        /\ ext_result = ByteViolation(value)

(***************************************************************************)
(* Storage and transfer properties.                                        *)
(***************************************************************************)
\* the Framed Envelope of a file name and a content
Envelope(name, content) == to_be_bytes(Len(name)) \o name \o content

\* what the backend in use holds under an identifier
Storage(id) ==
    IF design = "proxy" /\ backend = "gcs" THEN bucket[id] ELSE files[id]

\* the bytes an acknowledged upload was to leave under its identifier
Persisted(id) ==
    IF design = "proxy" THEN Envelope(stored[id].name, stored[id].content)
    ELSE stored[id].content

UploadKinds == {"write_file", "signed_upload"}
SignedKinds == {"signed_upload", "signed_download"}
Success == {"Ok", "ACCEPTED"}

\* C1: a read_file of an identifier, begun after write_file returned Ok for
\* it and returning Ok itself, yields the file name write_file was given and,
\* once its stream has ended, the content bytes write_file was given, in order
C1_FramingRoundTrip ==
    \A t \in TaskIds :
        (tasks[t].kind = "read_file" /\ tasks[t].after /\ tasks[t].result = "Ok") =>
            /\ tasks[t].name = stored[tasks[t].uuid].name
            /\ tasks[t].pc = "done" =>
                    tasks[t].data = stored[tasks[t].uuid].content

\* the round trip of C1 on the cloud backend alone
FramingRoundTripCloud == backend = "gcs" => C1_FramingRoundTrip

\* a step in which upload_handler answers
UploadAnswered ==
    /\ served' = served + 1
    /\ tasks' = tasks
    /\ response'.handler = "upload"

\* C2: upload_handler answers TooLarge(declared, maximum) exactly when the
\* declared size exceeds the maximum, and then no identifier is minted, no URL
\* is issued and storage is untouched; any other declared size is handed to
\* request_upload_url, which mints the identifier of the handle
C2_SizeEnforcement ==
    [][UploadAnswered =>
        IF response'.given > max_upload_size
        THEN /\ response'.status = "TooLarge"
             /\ response'.max = max_upload_size
             /\ response'.url = NoUrl /\ response'.uuid = 0
             /\ minted' = minted
             /\ files' = files /\ bucket' = bucket
        ELSE /\ response'.status \in {"CREATED", "Access"}
             /\ minted' = minted + 1
             /\ response'.status = "CREATED" =>
                    /\ response'.uuid = minted'
                    /\ response'.url.uuid = minted']_vars

\* an oversized upload is refused after an earlier one was issued a handle
C2_Refused ==
    /\ response.handler = "upload" /\ response.status = "TooLarge"
    /\ response.given = max_upload_size + 1
    /\ minted > 0

\* the code the issuer computes over the parts a request carries
Recomputed(r) == Mac(r.path, r.uuid, r.type_hint, r.ext_hint, r.expires)

\* a request whose signature is missing, malformed or altered, or whose
\* expiry has passed
BadRequest(r) ==
    \/ r.signature.tag = "none"
    \/ r.signature.tag = "malformed"
    \/ r.signature # Recomputed(r)
    \/ now > r.expires

\* C3: a request to a signed endpoint with a missing, malformed or altered
\* signature or a passed expiry is rejected, its arrival touches no file, and
\* every step that creates, truncates, writes or opens a local file is taken
\* by a request whose signature matches what it carries and that arrived
\* before its expiry
C3_TrustBoundary ==
    [][\A t \in TaskIds :
        /\ (tasks[t].kind = "idle" /\ tasks'[t].kind \in SignedKinds) =>
            /\ files' = files
            /\ IF BadRequest(tasks'[t].url)
               THEN tasks'[t].pc = "done" /\ tasks'[t].result = "Rejected"
               ELSE tasks'[t].pc \in {"create", "open"}
        /\ (tasks[t].kind \in SignedKinds /\ tasks[t].pc \in {"create", "copy", "open"}
                /\ tasks'[t] # tasks[t]) =>
            tasks[t].url.signature = Recomputed(tasks[t].url)
        /\ (tasks[t].kind \in SignedKinds /\ tasks[t].result = "Rejected") =>
            /\ tasks'[t] \in {tasks[t], IdleTask}
            /\ tasks'[t] # tasks[t] => files' = files]_vars

\* a URL is accepted while it is valid and, presented again unchanged after
\* its expiry, rejected while the first upload is still being copied
C3_RejectedAfterExpiry ==
    \E t \in TaskIds, u \in TaskIds :
        /\ tasks[t].kind = "signed_upload" /\ tasks[t].result = "Rejected"
        /\ tasks[t].url.signature = Recomputed(tasks[t].url)
        /\ now > tasks[t].url.expires
        /\ tasks[u].kind = "signed_upload" /\ tasks[u].pc = "copy"
        /\ tasks[u].url = tasks[t].url

\* every byte an upload was handed has been written by its handle
Delivered(t) ==
    IF tasks[t].kind = "signed_upload" THEN tasks[t].off = Len(tasks[t].data)
    ELSE IF backend = "gcs"
    THEN /\ bucket[tasks[t].uuid].exists
         /\ bucket[tasks[t].uuid].data = Envelope(tasks[t].name, tasks[t].data)
    ELSE /\ ~Inflight(t) /\ ~tasks[t].wfail
         /\ tasks[t].off = Len(Envelope(tasks[t].name, tasks[t].data))

\* C4: an upload reports success only when the header and every chunk it was
\* handed have been written; a failed stream or storage write never ends in
\* a successful result
C4_NoPartialSuccess ==
    \A t \in TaskIds :
        (tasks[t].kind \in UploadKinds /\ tasks[t].result \in Success) =>
            Delivered(t)

\* C4 where the last write is no longer in flight: a storage write that has
\* failed never ends in a successful result
NoSuccessAfterFailedWrite ==
    \A t \in TaskIds :
        (tasks[t].kind \in UploadKinds /\ tasks[t].result \in Success) =>
            ~tasks[t].wfail

\* C5: a download request for an identifier that was never issued ends in
\* the not-found kind: neither upload nor write_file has minted it, and the
\* answer is neither a success nor another error
C5_UnknownIdentifier ==
    /\ (response.handler = "download" /\ response.uuid > minted) =>
            response.status = "NoSuchFile"
    /\ \A t \in TaskIds :
        (/\ tasks[t].kind \in {"read_file", "signed_download"}
         /\ tasks[t].uuid > minted
         /\ tasks[t].result \notin {"none", "Rejected"}) =>
            tasks[t].result \in {"NoSuchFile", "NoSuchFileError"}

\* an identifier's upload was acknowledged and storage holds all of it
Complete(id) ==
    /\ stored[id].done
    /\ Storage(id).exists
    /\ Storage(id).data = Persisted(id)

\* a request that holds a handle writing to the path of its identifier
Writer(t) ==
    /\ tasks[t].kind \in UploadKinds
    /\ tasks[t].uuid # 0
    /\ tasks[t].pc \in {"prefix", "name", "content", "copy"}

\* C6: what storage holds under a completely written identifier never
\* changes again, and no two writers hold the same storage path
C6_AppendOnly ==
    /\ [][\A id \in Uuid : Complete(id) => Storage(id)' = Storage(id)]_vars
    /\ [](\A t \in TaskIds, u \in TaskIds :
            (t # u /\ Writer(t) /\ Writer(u)) => tasks[t].uuid # tasks[u].uuid)

\* C7: two uploads in flight together that write_file gave identifiers have
\* distinct identifiers, and when two uploads with distinct identifiers have
\* both succeeded and no write of theirs is in flight, each identifier holds
\* exactly its own upload's bytes
C7_ConcurrentDistinctUploads ==
    \A t \in TaskIds, u \in TaskIds :
        (t # u /\ tasks[t].kind \in UploadKinds /\ tasks[u].kind \in UploadKinds
            /\ tasks[t].uuid # 0 /\ tasks[u].uuid # 0) =>
            /\ tasks[t].kind = "write_file" => tasks[t].uuid # tasks[u].uuid
            /\ (/\ tasks[t].uuid # tasks[u].uuid
                /\ tasks[t].result \in Success /\ tasks[u].result \in Success
                /\ ~Inflight(t) /\ ~Inflight(u)) =>
                    Storage(tasks[t].uuid).data =
                        IF design = "proxy"
                        THEN Envelope(tasks[t].name, tasks[t].data)
                        ELSE tasks[t].data

\* the requests that read an object: read_file and the signed download
ReadKinds == {"read_file", "signed_download"}

\* the request in slot t has read an object and its answer is complete
ReadDone(t) ==
    /\ tasks[t].kind \in ReadKinds
    /\ tasks[t].pc = "done"
    /\ tasks[t].result # "Rejected"

\* two complete reads of one identifier gave the same answer; the length a
\* cloud read reports comes from a size_hint the model leaves open, so it
\* (and the subtraction that can fail on it) is compared for local reads
SameAnswer(t, u) ==
    /\ tasks[t].result = tasks[u].result \/ "panic" \in {tasks[t].result, tasks[u].result}
    /\ (tasks[t].result = tasks[u].result) =>
            /\ tasks[t].name = tasks[u].name
            /\ tasks[t].data = tasks[u].data
            /\ backend = "local" => tasks[t].len = tasks[u].len

\* C11: with no write in between, two reads of the same identifier,
\* one after the other or at the same time, give the same filename, the
\* same reported length and the same content, and no step of a read changes
\* anything in storage.
C11_IdempotentReads ==
    /\ [](\A t \in TaskIds, u \in TaskIds :
            (ReadDone(t) /\ ReadDone(u) /\ tasks[t].uuid = tasks[u].uuid)
                => SameAnswer(t, u))
    /\ [][UNCHANGED <<files, bucket>>]_vars

\* two reads of one stored envelope are complete at once, each with its
\* content delivered
C11_TwoReads ==
    /\ \A t \in TaskIds : ReadDone(t) /\ tasks[t].uuid = 1
                            /\ tasks[t].result \in {"Ok", "OK"}
                            /\ tasks[t].data # <<>>

\* the identifier a signed URL authorizes: the one its signature was
\* computed over
Authorizes(url, id) ==
    LET r == [url EXCEPT !.uuid = id] IN
    IF url.signature.tag = "gcs" THEN url.signature.msg[2] = id
    ELSE r.signature = Recomputed(r)

\* C13: every upload issuance that succeeds mints an identifier no
\* earlier call returned, answers 201 Created with a URL and that identifier,
\* and the URL is an upload URL that names and authorizes that identifier's
\* slot and no other identifier.
C13_UploadIssuance ==
    [][(UploadAnswered /\ response'.status = "CREATED") =>
        /\ response'.uuid \in Uuid \ (1..minted)
        /\ response'.url.uuid = response'.uuid
        /\ response'.url.path = IF backend = "local" THEN "/signed_upload" ELSE "PUT"
        /\ \A id \in Uuid :
                Authorizes(response'.url, id) <=> id = response'.uuid]_vars

\* a second upload has been issued its handle
C13_SecondHandle ==
    /\ response.handler = "upload" /\ response.status = "CREATED"
    /\ response.uuid = 2 /\ minted = 2

\* C14: every upload or download URL issued by either backend carries
\* the one fixed window (30 minutes) from its issuance, the same for local and
\* cloud and for both kinds of URL, and a request that presents an issued URL
\* to a signed endpoint is authorized at any time up to that expiry and at
\* no time after it.
C14_HandleExpiry ==
    /\ [][(response' # response /\ response'.url # NoUrl) =>
            response'.url.expires = now + Expiration]_vars
    /\ [][\A t \in TaskIds :
            (/\ tasks[t].kind = "idle" /\ tasks'[t].kind \in SignedKinds
             /\ tasks'[t].url.signature = Recomputed(tasks'[t].url)) =>
                (tasks'[t].result = "Rejected" <=> now > tasks'[t].url.expires)]_vars

\* a download URL is presented at the last instant of its window and is
\* authorized
C14_AuthorizedAtExpiry ==
    \E t \in TaskIds :
        /\ tasks[t].kind = "signed_download" /\ tasks[t].pc = "open"
        /\ tasks[t].url.signature = Recomputed(tasks[t].url)
        /\ now = tasks[t].url.expires

\* the response a signed download serves carries what the hints of its URL
\* ask for, and nothing when the URL has none
HintedHeaders(t) ==
    LET url == tasks[t].url
        h == tasks[t].headers
    IN /\ h.content_type = url.type_hint
       /\ url.ext_hint # "none" =>
            /\ h.disposition = "attachment"
            /\ h.filename # <<>> /\ h.filename[Len(h.filename)] = url.ext_hint
       /\ (url.type_hint = "none" /\ url.ext_hint = "none") => h = NoHeaders

\* C15: the hints given to request_download_url are parameters of the
\* URL it issues, on each backend, and the response served for that URL has
\* a Content-Type equal to the type hint and a Content-Disposition file name
\* that ends with the extension hint; without hints neither header is set.
C15_DownloadHints ==
    /\ (response.handler = "download" /\ response.status = "OK") =>
            /\ response.url.type_hint = response.type_hint
            /\ response.url.ext_hint = response.ext_hint
    /\ \A t \in TaskIds :
            (tasks[t].kind = "signed_download" /\ tasks[t].result = "OK") =>
                HintedHeaders(t)

\* the same on the local backend, whose URLs the server itself serves
DownloadHintsLocal == backend = "local" => C15_DownloadHints

\* a download with both hints has been served on the local backend
DownloadHintsServed ==
    \E t \in TaskIds :
        /\ tasks[t].kind = "signed_download" /\ tasks[t].result = "OK"
        /\ tasks[t].url.type_hint # "none" /\ tasks[t].url.ext_hint # "none"

\* the status the taxonomy gives each kind of error: not-found 404;
\* file-system, storage, server, access and corrupted 500; content-read 400;
\* too-large 413; blocked 403; invalid extension or query 400
Taxonomy(e) ==
    CASE e \in {"NoSuchFileError", "NoSuchFile"} -> {404}
      [] e \in {"FileSystemError", "ServerError", "Access", "FileCorruptedError"} -> {500}
      [] e = "ContentReadError" -> {400}
      [] e = "TooLarge" -> {413}
      [] e = "Blocked" -> {403}
      [] e = "InvalidQuery" -> {400}
      [] OTHER -> 400..599

\* the error kinds the requests of this state have ended with
Answered ==
    ({tasks[t].result : t \in TaskIds} \cup {response.status})
        \cap (PilviErrors \cup PithosErrors)

\* C16: every error kind is answered with one status, the one the
\* taxonomy gives it, and none with a 2xx status; this holds for every kind
\* there is and for the kind every failed request ends with.
C16_ErrorTaxonomy ==
    \A e \in PilviErrors \cup PithosErrors \cup Answered :
        /\ into_response(e) \in Taxonomy(e)
        /\ into_response(e) \notin 200..299

\* a request body failed while it was being stored and the request was
\* answered with the content-read kind, while another request was not found
C16_ClientAndServerErrors ==
    \E t \in TaskIds, u \in TaskIds :
        /\ tasks[t].pc = "done" /\ tasks[t].result = "ContentReadError"
        /\ into_response(tasks[t].result) = 400
        /\ tasks[u].pc = "done" /\ tasks[u].result = "NoSuchFileError"

\* C12: every file written into local storage, through write_file or
\* through the signed upload endpoint, is stored under its identifier and
\* holds exactly the framed envelope (8-byte length, name, content) of what
\* the upload gave.
C12_PersistedLayout ==
    \A id \in Uuid :
        (backend = "local" /\ stored[id].done) =>
            /\ files[id].exists
            /\ files[id].data = Envelope(stored[id].name, stored[id].content)

\* the same for write_file alone, once the writes it handed over have been
\* carried out without an error
PersistedLayoutOfWriteFile ==
    \A t \in TaskIds :
        (/\ design = "proxy" /\ backend = "local"
         /\ tasks[t].kind = "write_file" /\ tasks[t].result = "Ok"
         /\ tasks[t].buf = <<>> /\ ~tasks[t].wfail) =>
            files[tasks[t].uuid].data = Envelope(tasks[t].name, tasks[t].data)

\* the object a read_file request reads
ObjectOf(t) == Storage(tasks[t].uuid).data

\* the length prefix of an object of the model (below 256: its last byte)
PrefixOf(d) == d[8]

\* an object with its whole header, whose name bytes are not UTF-8
HasCorruptName(d) ==
    /\ Len(d) >= 8 /\ Len(d) >= 8 + PrefixOf(d)
    /\ SubSeq(d, 9, 8 + PrefixOf(d)) \in NotUtf8

\* C17: reading a stored object whose name bytes are not valid UTF-8
\* fails with the file-corrupted kind, answered 500: no filename and no
\* content is returned, and the failure is neither not-found nor a
\* file-system error.
C17_CorruptedFilename ==
    \A t \in TaskIds :
        (/\ tasks[t].kind = "read_file" /\ tasks[t].pc # "header"
         /\ HasCorruptName(ObjectOf(t))) =>
            /\ tasks[t].pc = "done"
            /\ tasks[t].result = "FileCorruptedError"
            /\ into_response(tasks[t].result) = 500
            /\ tasks[t].name = <<>> /\ tasks[t].data = <<>>

\* an object with content after a name that is not UTF-8 has been read
C17_CorruptNameRead ==
    \E t \in TaskIds :
        /\ tasks[t].kind = "read_file" /\ tasks[t].pc = "done"
        /\ HasCorruptName(ObjectOf(t))
        /\ Len(ObjectOf(t)) > 8 + PrefixOf(ObjectOf(t))

\* a stored object that ends before its full header
Truncated(id) ==
    LET d == Storage(id).data IN
    /\ Storage(id).exists
    /\ Len(d) < 8 \/ Len(d) < 8 + PrefixOf(d)

\* C18: reading a stored object that ends before its full header (fewer
\* than 8 bytes, or fewer than 8+N) never succeeds and fails with the
\* corrupted kind, answered 500, not with the file-system kind and not with
\* not-found.
C18_TruncatedHeader ==
    \A t \in TaskIds :
        (/\ tasks[t].kind = "read_file" /\ tasks[t].pc # "header"
         /\ Truncated(tasks[t].uuid)) =>
            /\ tasks[t].pc = "done"
            /\ tasks[t].result = "FileCorruptedError"
            /\ into_response(tasks[t].result) = 500

\* what reading such an object does: it never succeeds, and it fails with
\* the file-system kind
TruncatedHeaderFails ==
    \A t \in TaskIds :
        (/\ tasks[t].kind = "read_file" /\ tasks[t].pc # "header"
         /\ Truncated(tasks[t].uuid)) =>
            /\ tasks[t].pc = "done"
            /\ tasks[t].result = "FileSystemError"
            /\ tasks[t].name = <<>> /\ tasks[t].data = <<>>

\* the bytes of a sequence of chunks, in order
RECURSIVE Concat(_)
Concat(chunks) ==
    IF chunks = <<>> THEN <<>> ELSE Head(chunks) \o Concat(Tail(chunks))

\* a stored object with its whole header and a name that is UTF-8
Decodable(id) ==
    LET d == Storage(id).data IN
    /\ Storage(id).exists /\ ~Truncated(id)
    /\ SubSeq(d, 9, 8 + PrefixOf(d)) \notin NotUtf8

BigEndian8(n) == [i \in 1..8 |-> IF i = 8 THEN n ELSE 0]

\* the body bytes that have arrived at the request in slot t, in the order
\* of their arrival
Arrived(t) == BodyChunk(t, 0, Len(tasks[t].data))

\* the bytes write_file has written or handed over for writing so far: on
\* the local backend what the file holds and the write in flight, on the
\* cloud backend the items of the stream given to the upload
Emitted(t) ==
    IF backend = "local" THEN files[tasks[t].uuid].data \o tasks[t].buf
    ELSE tasks[t].buf \o tasks[t].data

\* C20: write_file emits the 8-byte big-endian length of the name, then
\* the name bytes, then every chunk unchanged in the order of arrival, with
\* nothing in between, and each chunk is emitted when it arrives: at every
\* point of an upload whose writes have not failed, what has been emitted
\* is the header and every body byte that has arrived so far, and what the
\* cloud stores at the end is exactly that.
C20_EncodingOrder ==
    \A t \in TaskIds :
        (/\ design = "proxy" /\ tasks[t].kind = "write_file"
         /\ tasks[t].result \in {"none", "Ok"} /\ ~tasks[t].wfail) =>
            LET N == Len(tasks[t].name) IN
            /\ Emitted(t) =
                    CASE tasks[t].pc = "prefix" -> <<>>
                      [] tasks[t].pc = "name" -> BigEndian8(N)
                      [] OTHER -> BigEndian8(N) \o tasks[t].name \o Arrived(t)
            /\ (backend = "gcs" /\ tasks[t].result = "Ok") =>
                    bucket[tasks[t].uuid].data = Emitted(t)

\* an upload with a name of two bytes has written its header and two chunks
C20_TwoChunksWritten ==
    \E t \in TaskIds :
        /\ backend = "local" /\ tasks[t].kind = "write_file"
        /\ tasks[t].result = "Ok" /\ ~tasks[t].wfail /\ tasks[t].buf = <<>>
        /\ Len(tasks[t].name) = 2 /\ tasks[t].n = 2
        /\ Len(files[tasks[t].uuid].data) = 12

\* C21: the length the local read_file reports is file_size - 8 - N, it
\* is never negative or wrapped, and it is the number of bytes the content
\* stream of that read yields; the cloud write_file passes the total length
\* content_length + N + 8 when the content length is known and none when it
\* is not.
C21_LengthArithmetic ==
    \A t \in TaskIds :
        /\ (/\ design = "proxy" /\ backend = "local"
            /\ tasks[t].kind = "read_file" /\ tasks[t].result = "Ok") =>
                /\ tasks[t].len >= 0
                /\ tasks[t].len + 8 + Len(tasks[t].name) <= Len(ObjectOf(t))
                /\ tasks[t].pc = "done" => Len(tasks[t].data) = tasks[t].len
        /\ (backend = "gcs" /\ tasks[t].kind = "write_file") =>
                tasks[t].len = IF tasks[t].off = -1 THEN -1
                               ELSE tasks[t].off + Len(tasks[t].name) + 8

\* the same over storage that no upload is writing to, where the reported
\* length is exactly file_size - 8 - N
LengthArithmeticAtRest ==
    \A t \in TaskIds :
        (/\ design = "proxy" /\ backend = "local"
         /\ tasks[t].kind = "read_file" /\ tasks[t].result = "Ok") =>
            /\ tasks[t].len = Len(ObjectOf(t)) - 8 - Len(tasks[t].name)
            /\ tasks[t].len >= 0
            /\ tasks[t].pc = "done" => Len(tasks[t].data) = tasks[t].len

\* the cloud half of it: the total length handed to create_streamed
TotalLengthPassed ==
    \A t \in TaskIds :
        (backend = "gcs" /\ tasks[t].kind = "write_file") =>
            tasks[t].len = IF tasks[t].off = -1 THEN -1
                           ELSE tasks[t].off + Len(tasks[t].name) + 8

\* C22: the length the cloud read_file returns is absent or equal to
\* the number of content bytes the returned stream yields, and computing it
\* never underflows: the read of a decodable object does not panic and never
\* reports a wrapped or otherwise wrong number.
C22_CloudReadLength ==
    \A t \in TaskIds :
        (/\ backend = "gcs" /\ tasks[t].kind = "read_file"
         /\ tasks[t].pc # "header" /\ Decodable(tasks[t].uuid)) =>
            LET d == ObjectOf(t) IN
            /\ tasks[t].result = "Ok"
            /\ tasks[t].len \in {-1, Len(d) - 8 - PrefixOf(d)}

\* what does hold: a length that is reported from the size of the whole
\* object is the number of content bytes
CloudReadLengthFromTotal ==
    \A t \in TaskIds :
        (/\ backend = "gcs" /\ tasks[t].kind = "read_file"
         /\ tasks[t].result = "Ok" /\ Decodable(tasks[t].uuid)
         /\ tasks[t].len >= Len(ObjectOf(t)) - 8 - PrefixOf(ObjectOf(t))) =>
            /\ tasks[t].len = Len(ObjectOf(t)) - 8 - PrefixOf(ObjectOf(t))
            /\ tasks[t].pc = "done" => Len(tasks[t].data) = tasks[t].len

\* C23: producing the response of an error writes a log entry if and
\* only if the error's status is 5xx; an error answered 4xx is not logged,
\* in both error types.
C23_LoggingPolicy ==
    \A e \in Answered : Logs(e) <=> into_response(e) \in 500..599

\* the same for the errors of the issuance design (PithosError) alone
LoggingPolicyOfPithosError ==
    \A e \in Answered \cap PithosErrors :
        Logs(e) <=> into_response(e) \in 500..599

\* C25: on the local backend the bytes a signed upload writes for an
\* identifier never exceed the size declared in the upload request that
\* issued its URL, and so never exceed the configured maximum.
C25_DeclaredSizeBoundsStored ==
    \A t \in TaskIds :
        (/\ backend = "local" /\ tasks[t].kind = "signed_upload"
         /\ response.handler = "upload" /\ response.status = "CREATED"
         /\ tasks[t].url = response.url) =>
            /\ tasks[t].off <= response.given
            /\ Len(files[tasks[t].uuid].data) <= max_upload_size

\* the kinds a read of an identifier without a file fails with
NotFound == {"NoSuchFileError", "NoSuchFile"}

\* C26: on local storage a download of an identifier, however it is
\* interleaved with uploads of that identifier, either fails with not-found
\* or returns the name and the complete bytes of an upload that has
\* finished, never part of one still in progress, and the length it
\* announces is the number of bytes it serves.
C26_NoTornReads ==
    \A t \in TaskIds :
        (backend = "local" /\ ReadDone(t)) =>
            \/ tasks[t].result \in NotFound
            \/ /\ tasks[t].result \in {"Ok", "OK"}
               /\ <<tasks[t].name, tasks[t].data>> \in stored[tasks[t].uuid].all
               /\ tasks[t].len = Len(tasks[t].data)

\* a download has served fewer bytes than an upload of its identifier, still
\* in progress, has already been handed
TornRead ==
    \E t \in TaskIds, w \in TaskIds :
        /\ backend = "local" /\ ReadDone(t) /\ tasks[t].result \in {"Ok", "OK"}
        /\ tasks[w].kind \in UploadKinds /\ tasks[w].uuid = tasks[t].uuid
        /\ tasks[w].pc # "done"
        /\ Len(tasks[t].data) < Len(tasks[w].data)
        /\ stored[tasks[t].uuid].all = {}

(***************************************************************************)
(* The specifications.                                                     *)
(***************************************************************************)
\* the system's variables while only the validator runs
SysIdle ==
    /\ design = "proxy" /\ backend = "local"
    /\ files = [id \in Uuid |-> NoFile]
    /\ bucket = [id \in Uuid |-> NoFile]
    /\ served = 0
    /\ minted = 0
    /\ now = 0
    /\ tasks = [t \in TaskIds |-> IdleTask]
    /\ response = NoResponse
    /\ stored = [id \in Uuid |-> NotStored]

ExtInit == (\E v \in ExtInputs : ExtStart(v)) /\ SysIdle

\* FileExt::from_str applied to each generated string
SpecExt == ExtInit /\ [][ExtNext]_vars

\* the server after startup: one design, one backend, empty storage
Init ==
    /\ ExtStart(<<>>)
    /\ design \in {"proxy", "issuance"} /\ backend \in {"local", "gcs"}
    /\ files = [id \in Uuid |-> NoFile]
    /\ bucket = [id \in Uuid |-> NoFile]
    /\ served = 0
    /\ minted = 0
    /\ now = 0
    /\ tasks = [t \in TaskIds |-> IdleTask]
    /\ response = NoResponse
    /\ stored = [id \in Uuid |-> NotStored]

Next ==
    \/ upload_handler \/ download_handler \/ Tick
    \/ \E t \in TaskIds :
        \/ write_file_create(t) \/ write_file_prefix(t) \/ write_file_name(t)
        \/ write_file_chunk(t) \/ write_file_chunk_err(t) \/ write_file_return(t)
        \/ read_file_open(t) \/ read_file_header(t) \/ read_file_body(t)
        \/ read_file_eof(t)
        \/ gcs_write_file_start(t) \/ gcs_write_file_chunk(t)
        \/ gcs_write_file_chunk_err(t) \/ gcs_write_file_end(t)
        \/ gcs_read_file_start(t) \/ gcs_read_file_header(t)
        \/ gcs_read_file_body(t) \/ gcs_read_file_eof(t)
        \/ signed_upload_handler(t) \/ signed_upload_create(t)
        \/ signed_upload_copy(t) \/ signed_upload_body_err(t)
        \/ signed_upload_end(t)
        \/ signed_download_handler(t) \/ signed_download_open(t)
        \/ signed_download_body(t) \/ signed_download_eof(t)
        \/ blocking_write(t)
        \/ task_end(t)

\* the server handling requests
Spec == Init /\ [][Next]_vars

\* the names found in the header of an object in storage: "", e-acute, "a",
\* and the byte strings that are not UTF-8
StoredNames == FileNames \cup {<<97>>} \cup NotUtf8

\* the contents of the objects in storage
StoredContents == {[i \in 1..k |-> i] : k \in 0..MaxContent}

\* the objects storage can hold at startup: envelopes, and envelopes cut
\* short at any byte
Objects ==
    UNION {{SubSeq(Envelope(n, c), 1, k) : k \in 0..Len(Envelope(n, c))} :
                n \in StoredNames, c \in StoredContents}

\* a server started over storage that holds one object, under identifier 1:
\* an envelope where model.rs wrote it, a raw body where the signed upload did
ReadInit ==
    /\ ExtStart(<<>>)
    /\ \E c \in {<<"proxy", "local">>, <<"proxy", "gcs">>, <<"issuance", "local">>} :
        design = c[1] /\ backend = c[2]
    /\ \E d \in (IF design = "proxy" THEN Objects ELSE StoredContents) :
        /\ files = [id \in Uuid |-> IF id = 1 /\ backend = "local" THEN File(d)
                                      ELSE NoFile]
        /\ bucket = [id \in Uuid |-> IF id = 1 /\ backend = "gcs" THEN File(d)
                                       ELSE NoFile]
    /\ served = 0
    /\ minted = 1
    /\ now = 0
    /\ tasks = [t \in TaskIds |-> IdleTask]
    /\ response = NoResponse
    /\ stored = [id \in Uuid |-> NotStored]

ReadNext ==
    \/ download_handler \/ Tick
    \/ \E t \in TaskIds :
        \/ read_file_open(t) \/ read_file_header(t) \/ read_file_body(t)
        \/ read_file_eof(t)
        \/ gcs_read_file_start(t) \/ gcs_read_file_header(t)
        \/ gcs_read_file_body(t) \/ gcs_read_file_eof(t)
        \/ signed_download_handler(t) \/ signed_download_open(t)
        \/ signed_download_body(t) \/ signed_download_eof(t)
        \/ task_end(t)

\* the server answering reads of what storage holds
SpecRead == ReadInit /\ [][ReadNext]_vars

====
